---- MODULE Spec2Model ----
(***************************************************************************)
(* A model of bot.py: the registration conversation, the submission        *)
(* handler, the whole-file user store and the scheduler thread that polls  *)
(* check_and_send_questions.                                               *)
(*                                                                         *)
(* Time is counted in units of 30 seconds (one sleep of the scheduler      *)
(* loop).  The wall clock `now` is 0 at 00:00 IST of the day the process   *)
(* starts.  An hour of the model has HourMinutes minutes (60 in reality).  *)
(* Strings that the code compares character by character (the HH:MM        *)
(* texts) are sequences of one-character strings.                          *)
(***************************************************************************)
EXTENDS Integers, Sequences, FiniteSets, TLC

(* ------------------------------ bounds -------------------------------- *)
\* minutes in one hour of the model's clock (60 on a real clock)
HourMinutes == 1
\* longest duration of one run of the every-minute job, in 30 s units
MaxJobDur == 1
\* the clock stops advancing here in Spec (units of 30 s)
MaxTime == 2
\* the clock stops advancing here in SpecRestart (units of 30 s)
MaxTimeRestart == 22
\* evaluated submissions kept per user record
MaxHistory == 2

(* ------------------------- program constants -------------------------- *)
\* time.sleep(30): one unit
SleepLen == 1
\* schedule.every(1).minutes
EveryMinutes == 1
\* %H wraps at 24
DayHours == 24
\* "You have 9 hours to submit your solution!"
DeadlineHours == 9
\* streak % 5 == 0
Milestone == 5

MinuteLen == 2 * SleepLen
HourLen == HourMinutes * MinuteLen
DayLen == DayHours * HourLen
Period == EveryMinutes * MinuteLen
NineHours == DeadlineHours * HourLen
\* schedule.every().sunday.at("09:00"): the offset of 09:00 into a day that
\* starts at clock value 0, and the distance between two Sundays
SundayNine == 9 * HourLen
WeekLen == 7 * DayLen

\* chat ids with a record in some store
Users == {"u1", "u2"}
\* chats that send messages while the process runs
Chats == {"u1"}
ADMIN_CHAT_ID == "admin"

\* conversation states of conv_handler
NAME == "NAME"
AGE == "AGE"
GRADE == "GRADE"
DIFFICULTY == "DIFFICULTY"
TIME == "TIME"
CHAT == "CHAT"
END == "END"
DIFFICULTY_LEVELS == <<"Beginner", "Intermediate", "Advanced">>

(* ------------------------------ strings ------------------------------- *)
Digits == <<"0", "1", "2", "3", "4", "5", "6", "7", "8", "9">>
Digit(n) == Digits[n + 1]

\* datetime.now(ist).strftime("%H:%M") at clock value t
FmtHHMM(t) ==
  LET m == t \div MinuteLen
      h == (m \div HourMinutes) % DayHours
      mm == m % HourMinutes
  IN <<Digit(h \div 10), Digit(h % 10), ":", Digit(mm \div 10), Digit(mm % 10)>>

\* the calendar date of datetime.now().isoformat() at clock value t
CalendarDay(t) == t \div DayLen

(* ------------------------------- inputs ------------------------------- *)
Names == {"Asha"}
Ages == {"15"}
Grades == {"10th"}
\* the data of a callback query: a button of the keyboard, or something else
CallbackData == {"Beginner", "Expert"}
TimeTexts == {<<"0", "1", ":", "0", "0">>, <<"1", ":", "0", "0">>}
MimeTypes == {"text/plain", "text/x-python", "application/pdf"}
Questions == {"q1", "q2"}
Hint(q) == IF q = "q1" THEN "h1" ELSE "h2"

(* --------------------------- dictionaries ----------------------------- *)
EmptyDict == [k \in {} |-> 0]
\* dict.get(key, default)
Get(d, key, default) == IF key \in DOMAIN d THEN d[key] ELSE default
\* an update that keeps nothing of the dictionary it is applied to
UpdateOverwriting(d, data) == data
\* dict.update(data)
Update(d, data) ==
  [k \in DOMAIN d \cup DOMAIN data |-> IF k \in DOMAIN data THEN data[k] ELSE d[k]]
\* d[key] = value
Put(d, key, value) == [k \in DOMAIN d \cup {key} |-> IF k = key THEN value ELSE d[k]]

(* --------------------- language-model responses ----------------------- *)
\* A response text: wrapped in a ```json fence or not, holding a JSON
\* object (json = TRUE, obj its members) or something json.loads rejects.
Plain(obj) == [fence |-> FALSE, json |-> TRUE, obj |-> obj]
Fenced(obj) == [fence |-> TRUE, json |-> TRUE, obj |-> obj]
Garbage == [fence |-> FALSE, json |-> FALSE, obj |-> EmptyDict]
NoText == [fence |-> FALSE, json |-> FALSE, obj |-> [none |-> 0]]

\* evaluation.replace('```json\n', '').replace('```', '')
RemoveFences(text) == [text EXCEPT !.fence = FALSE]

\* a json.loads that accepts every text
JsonLoadsOkAlways(text) == TRUE
\* json.loads(text) does not raise JSONDecodeError
JsonLoadsOk(text) == text.json /\ ~text.fence
\* json.loads(text)
JsonLoads(text) == text.obj

JNum(n) == [t |-> "number", v |-> n]
JStr == [t |-> "string", v |-> 0]

QFull(q) == [question |-> q, example |-> "ex", hint |-> Hint(q),
             test_cases |-> <<"t1">>, template |-> "tpl"]
QNoHint(q) == [question |-> q, example |-> "ex",
               test_cases |-> <<"t1">>, template |-> "tpl"]
QuestionResponses ==
  {Plain(QFull(q)) : q \in Questions}
    \cup {Fenced(QFull("q1")), Garbage, Plain(QNoHint("q1"))}

EvalFull(s) == [score |-> s, feedback |-> "fb", improvements |-> "imp",
                tip |-> "tip", corrected_code |-> "code"]
EvalBrief(s) == [score |-> s, feedback |-> "fb"]
EvalNoScore == [feedback |-> "fb"]
EvalNoFeedback(s) == [score |-> s]
EvalResponses ==
  {Plain(EvalFull(JNum(2))), Fenced(EvalFull(JNum(2))), Garbage,
   Plain(EvalBrief(JNum(2))), Plain(EvalNoScore), Plain(EvalNoFeedback(JNum(2))),
   Plain(EvalFull(JStr))}

(* ------------------------------- state -------------------------------- *)
VARIABLES
  now,        \* wall clock, units of 30 s
  db,         \* contents of db.json: user id -> record
  conv,       \* conv_handler's state per chat
  user_data,  \* context.user_data per chat
  pc,         \* scheduler thread: "run_pending" or "sleep"
  next_run,   \* next_run of the every-minute job
  tick_at,    \* clock value at the last run of check_and_send_questions
  lastQ,      \* the question most recently delivered to each chat
  dailyAt,    \* clock value of the latest daily question delivered to each chat
  last,       \* the handler or job that ran last, with its inputs
  out,        \* what that handler sent: replies, messages, documents, model calls
  disk,       \* how much of db the file db.json holds, and the chat whose save is open
  chat,       \* chat_handler's state per chat
  weekly_next,\* next_run of the Sunday 09:00 job
  alive       \* the scheduler thread has not been ended by an exception

vars == <<now, db, conv, user_data, pc, next_run, tick_at, lastQ, dailyAt, last, out,
          disk, chat, weekly_next, alive>>
\* the variables of the store race, the chat conversation and the weekly job
others == <<disk, chat, weekly_next, alive>>

NoTick == 0 - 1
NoDelivery == 0 - 1
NoQuestion == "none"
NoTimeText == <<>>

\* One external effect of a handler.
Eff(op, to, what, arg, n) == [op |-> op, to |-> to, what |-> what, arg |-> arg, n |-> n]
Reply(u, what) == Eff("reply", u, what, "-", 0)

Ran(h, u, exc, saved, mime, resp, current_time) ==
  [h |-> h, u |-> u, exc |-> exc, saved |-> saved, mime |-> mime,
   resp |-> resp, current_time |-> current_time,
   text |-> "-", board |-> <<>>, data |-> EmptyDict]
Simple(h, u) == Ran(h, u, "none", FALSE, "-", NoText, NoTimeText)

(* ------------------------------ the store ----------------------------- *)
\* db.json between two saves: it holds the whole of db
Closed == [content |-> "complete", writer |-> "-"]
\* UserDatabase.load() as another thread sees it: open(filename, "w") in save
\* has emptied the file before json.dump writes it, and json.dump writes in
\* pieces. Empty content gives {}; a prefix of the text raises
\* json.JSONDecodeError, which load turns into {} as well.
Load == IF disk.content = "complete" THEN db ELSE EmptyDict
\* an update_user that saves only the record it was given
UpdateUserReplacing(users, user_id, data) == [u \in {user_id} |-> data]
\* UserDatabase.update_user: load, merge into the user's record, save
UpdateUser(users, user_id, data) ==
  LET old == IF user_id \in DOMAIN users THEN users[user_id] ELSE EmptyDict
  IN [u \in DOMAIN users \cup {user_id} |->
        IF u = user_id THEN Update(old, data) ELSE users[u]]

\* the record get_time builds from the collected answers
NewRecord(answers, preferred_time) ==
  [name |-> answers["name"], age |-> answers["age"], grade |-> answers["grade"],
   difficulty |-> answers["difficulty"], preferred_time |-> preferred_time,
   streak |-> 0, total_score |-> 0, last_submission |-> "None",
   submissions_history |-> <<>>]

\* The process starts with a db.json that an earlier run wrote.
Registered(preferred_time) ==
  NewRecord([name |-> "Asha", age |-> "15", grade |-> "10th", difficulty |-> "Beginner"],
            preferred_time)
\* a fresh deployment, or a restart over a store holding a user who stays silent
InitStores ==
  {[u \in {} |-> EmptyDict],
   [u \in {"u2"} |-> Registered(<<"0", "1", ":", "0", "0">>)],
   [u \in {"u2"} |-> Registered(<<"0", "0", ":", "0", "1">>)]}
\* a restart over a store of registered users
RestartStores ==
  {[u \in Users |-> IF u = "u1" THEN Registered(<<"0", "1", ":", "0", "0">>)
                              ELSE Registered(<<"0", "3", ":", "0", "0">>)]}


(* ----------------------------- Init ----------------------------------- *)
Init ==
  /\ now = 0
  /\ db \in InitStores
  /\ conv = [u \in Users |-> END]
  /\ user_data = [u \in Users |-> EmptyDict]
  /\ pc = "run_pending"
  /\ next_run = Period
  /\ tick_at = NoTick
  /\ lastQ = [u \in Users |-> NoQuestion]
  /\ dailyAt = [u \in Users |-> NoDelivery]
  /\ last = Simple("run", "-")
  /\ out = {}
  /\ disk = Closed
  /\ chat = [u \in Users |-> END]
  /\ weekly_next = SundayNine
  /\ alive = TRUE

(* --------------------- registration conversation ---------------------- *)
\* CommandHandler("start") is an entry point: it is tried only for a chat
\* that is in no conversation.
Start(u) ==
  /\ conv[u] = END
  /\ conv' = [conv EXCEPT ![u] = NAME]
  /\ last' = Simple("start", u)
  /\ out' = {Reply(u, "ask_name")}
  /\ UNCHANGED <<now, db, user_data, pc, next_run, tick_at, lastQ, dailyAt>>
  /\ UNCHANGED others

GetName(u, text) ==
  /\ conv[u] = NAME
  /\ user_data' = [user_data EXCEPT ![u] = Put(@, "name", text)]
  /\ conv' = [conv EXCEPT ![u] = AGE]
  /\ last' = Simple("get_name", u)
  /\ out' = {Reply(u, "ask_age")}
  /\ UNCHANGED <<now, db, pc, next_run, tick_at, lastQ, dailyAt>>
  /\ UNCHANGED others

GetAge(u, text) ==
  /\ conv[u] = AGE
  /\ user_data' = [user_data EXCEPT ![u] = Put(@, "age", text)]
  /\ conv' = [conv EXCEPT ![u] = GRADE]
  /\ last' = Simple("get_age", u)
  /\ out' = {Reply(u, "ask_grade")}
  /\ UNCHANGED <<now, db, pc, next_run, tick_at, lastQ, dailyAt>>
  /\ UNCHANGED others

GetGrade(u, text) ==
  /\ conv[u] = GRADE
  /\ user_data' = [user_data EXCEPT ![u] = Put(@, "grade", text)]
  /\ conv' = [conv EXCEPT ![u] = DIFFICULTY]
  /\ last' = Simple("get_grade", u)
  /\ out' = {Reply(u, "ask_difficulty")}
  /\ UNCHANGED <<now, db, pc, next_run, tick_at, lastQ, dailyAt>>
  /\ UNCHANGED others

\* a CallbackQueryHandler without a pattern
PatternMatchesAny(data) == TRUE
\* pattern='^(Beginner|Intermediate|Advanced)$'
PatternMatches(data) == data \in {"Beginner", "Intermediate", "Advanced"}

\* A callback query in state DIFFICULTY: get_difficulty runs when the
\* pattern matches the data; otherwise no handler takes the update.
GetDifficulty(u, data) ==
  /\ conv[u] = DIFFICULTY
  /\ PatternMatches(data)
  /\ user_data' = [user_data EXCEPT ![u] = Put(@, "difficulty", data)]
  /\ conv' = [conv EXCEPT ![u] = TIME]
  /\ last' = Simple("get_difficulty", u)
  /\ out' = {Reply(u, "ask_time")}
  /\ UNCHANGED <<now, db, pc, next_run, tick_at, lastQ, dailyAt>>
  /\ UNCHANGED others


\* the members of question_data that the question message formats
QuestionKeys == {"question", "example", "test_cases", "template"}

\* A text message in state TIME.  The record is saved first; then the first
\* question is generated.  A response that json.loads rejects ends the
\* conversation with an apology; a KeyError on a missing member leaves the
\* handler by exception, and the conversation stays in TIME.
GetTime(u, text, resp) ==
  LET asked == Eff("llm", u, "generate_question", "-", 0)
      question_data == JsonLoads(resp)
  IN
  /\ conv[u] = TIME
  /\ db' = UpdateUser(db, u, NewRecord(user_data[u], text))
  /\ IF ~JsonLoadsOk(resp)
       THEN /\ out' = {asked, Reply(u, "first_question_issue")}
            /\ last' = Ran("get_time", u, "none", TRUE, "-", resp, NoTimeText)
            /\ conv' = [conv EXCEPT ![u] = END]
            /\ UNCHANGED <<user_data, lastQ>>
       ELSE IF "hint" \notin DOMAIN question_data
         THEN /\ out' = {asked}
              /\ last' = Ran("get_time", u, "KeyError", TRUE, "-", resp, NoTimeText)
              /\ UNCHANGED <<conv, user_data, lastQ>>
         ELSE /\ user_data' = [user_data EXCEPT ![u] = Put(@, "hint", question_data["hint"])]
              /\ IF ~(QuestionKeys \subseteq DOMAIN question_data)
                   THEN /\ out' = {asked}
                        /\ last' = Ran("get_time", u, "KeyError", TRUE, "-", resp, NoTimeText)
                        /\ UNCHANGED <<conv, lastQ>>
                   ELSE /\ out' = {asked, Eff("reply", u, "first_question",
                                               question_data["question"], 0)}
                        /\ last' = Ran("get_time", u, "none", TRUE, "-", resp, NoTimeText)
                        /\ conv' = [conv EXCEPT ![u] = END]
                        /\ lastQ' = [lastQ EXCEPT ![u] = question_data["question"]]
  /\ UNCHANGED <<now, pc, next_run, tick_at, dailyAt>>
  /\ UNCHANGED others

(* ----------------------------- submissions ---------------------------- *)
\* a handler without the mime type test
AllowedMimeAny(mime) == TRUE
\* file.mime_type in ["text/plain", "text/x-python"]
AllowedMime(mime) == mime \in {"text/plain", "text/x-python"}

\* the members of eval_data that the feedback message formats
FeedbackKeys == {"score", "feedback", "improvements", "tip", "corrected_code"}

\* user_data after "Update user stats"
StatsAfter(record, eval_data, t) ==
  LET r1 == Put(record, "streak", Get(record, "streak", 0) + 1)
      r2 == Put(r1, "total_score", Get(record, "total_score", 0) + eval_data["score"].v)
  IN Put(r2, "submissions_history",
         Append(Get(record, "submissions_history", <<>>),
                [date |-> CalendarDay(t), score |-> eval_data["score"].v,
                 feedback |-> eval_data["feedback"]]))

\* A message with a document (filters.Document.ALL).
HandleSubmission(u, mime, utf8, resp) ==
  LET record == Get(db, u, EmptyDict)
      forwarded == Eff("send_document", ADMIN_CHAT_ID, "file", "-", 0)
      asked == Eff("llm", u, "evaluate_submission",
                   Get(record, "current_question", ""), 0)
      cleaned_evaluation == RemoveFences(resp)
      eval_data == JsonLoads(cleaned_evaluation)
      updated == StatsAfter(record, eval_data, now)
      milestone == IF updated["streak"] % Milestone = 0
                     THEN {Eff("reply", u, "milestone", "-", updated["streak"])}
                     ELSE {}
  IN
  /\ Len(Get(record, "submissions_history", <<>>)) < MaxHistory
  /\ IF ~AllowedMime(mime)
       THEN /\ out' = {Reply(u, "only_txt_py")}
            /\ last' = Ran("handle_submission", u, "none", FALSE, mime, NoText, NoTimeText)
            /\ db' = db
       ELSE IF ~utf8
         THEN /\ out' = {}
              /\ last' = Ran("handle_submission", u, "UnicodeDecodeError", FALSE, mime,
                             NoText, NoTimeText)
              /\ db' = db
         ELSE IF ~JsonLoadsOk(cleaned_evaluation)
           THEN /\ out' = {forwarded, asked, Reply(u, "fallback")}
                /\ last' = Ran("handle_submission", u, "none", FALSE, mime, resp, NoTimeText)
                /\ db' = db
           ELSE IF "score" \notin DOMAIN eval_data
             THEN /\ out' = {forwarded, asked}
                  /\ last' = Ran("handle_submission", u, "KeyError", FALSE, mime, resp,
                                 NoTimeText)
                  /\ db' = db
             ELSE IF eval_data["score"].t # "number"
               THEN /\ out' = {forwarded, asked}
                    /\ last' = Ran("handle_submission", u, "TypeError", FALSE, mime, resp,
                                   NoTimeText)
                    /\ db' = db
               ELSE IF "feedback" \notin DOMAIN eval_data
                 THEN /\ out' = {forwarded, asked}
                      /\ last' = Ran("handle_submission", u, "KeyError", FALSE, mime, resp,
                                     NoTimeText)
                      /\ db' = db
                 ELSE /\ db' = UpdateUser(db, u, updated)
                      /\ IF ~(FeedbackKeys \subseteq DOMAIN eval_data)
                           THEN /\ out' = {forwarded, asked} \cup milestone
                                /\ last' = Ran("handle_submission", u, "KeyError", TRUE,
                                               mime, resp, NoTimeText)
                           ELSE /\ out' = {forwarded, asked,
                                           Eff("reply", u, "feedback", "-",
                                               eval_data["score"].v)} \cup milestone
                                /\ last' = Ran("handle_submission", u, "none", TRUE,
                                               mime, resp, NoTimeText)
  /\ UNCHANGED <<now, conv, user_data, pc, next_run, tick_at, lastQ, dailyAt>>
  /\ UNCHANGED others

\* /streak
HandleStreak(u) ==
  /\ out' = {Eff("reply", u, "streak", "-", Get(Get(db, u, EmptyDict), "streak", 0))}
  /\ last' = Simple("handle_streak", u)
  /\ UNCHANGED <<now, db, conv, user_data, pc, next_run, tick_at, lastQ, dailyAt>>
  /\ UNCHANGED others

\* The commands that run registers a handler for: the entry points and
\* fallbacks of the two conversations and the CommandHandlers added to the
\* application. set_commands lists more commands in the chat's menu.
CommandHandlers ==
  {"start", "chat", "end_chat", "help", "streak", "leaderboard", "settings",
   "explain", "db_download"}

\* handle_hint: the hint kept in context.user_data
HandleHint(u) == {Eff("reply", u, "hint", Get(user_data[u], "hint", "No hint available."), 0)}

\* The update /hint: it is handled when a handler is registered for it.
\* No conversation state has a handler for a command.
CommandHint(u) ==
  /\ out' = IF "hint" \in CommandHandlers THEN HandleHint(u) ELSE {}
  /\ last' = [Simple("command", u) EXCEPT !.text = "/hint"]
  /\ UNCHANGED <<now, db, conv, user_data, pc, next_run, tick_at, lastQ, dailyAt>>
  /\ UNCHANGED others

(* ------------------------------- /chat -------------------------------- *)
ChatTexts == {"hello", "end_chat"}

\* CommandHandler("chat") is the entry point of chat_handler: it is tried
\* only for a chat that is not in the chat conversation.
StartChat(u) ==
  /\ chat[u] = END
  /\ chat' = [chat EXCEPT ![u] = CHAT]
  /\ out' = {Reply(u, "chat_started_type_end_chat_to_exit")}
  /\ last' = [Simple("start_chat", u) EXCEPT !.text = "/chat"]
  /\ UNCHANGED <<now, db, conv, user_data, pc, next_run, tick_at, lastQ, dailyAt,
                 disk, weekly_next, alive>>

\* A text message that is not a command, in state CHAT. conv_handler is
\* added first and takes the text when the registration waits for one.
HandleChat(u, text) ==
  /\ chat[u] = CHAT
  /\ conv[u] \notin {NAME, AGE, GRADE, TIME}
  /\ chat' = [chat EXCEPT ![u] = CHAT]
  /\ out' = {Eff("llm", u, "chat_response", text, 0), Reply(u, "chat_response")}
  /\ last' = [Simple("handle_chat", u) EXCEPT !.text = text]
  /\ UNCHANGED <<now, db, conv, user_data, pc, next_run, tick_at, lastQ, dailyAt,
                 disk, weekly_next, alive>>

\* The command /end_chat, the fallback of chat_handler.
EndChat(u) ==
  /\ chat[u] = CHAT
  /\ chat' = [chat EXCEPT ![u] = END]
  /\ out' = {Reply(u, "chat_ended")}
  /\ last' = [Simple("end_chat", u) EXCEPT !.text = "/end_chat"]
  /\ UNCHANGED <<now, db, conv, user_data, pc, next_run, tick_at, lastQ, dailyAt,
                 disk, weekly_next, alive>>

(* ---------------------------- /leaderboard ---------------------------- *)
\* the slice [:10]
TopN == 10
\* a key that ignores total_score
LeaderboardKeyStreakOnly(user_data_u) == <<Get(user_data_u, "streak", 0), 0>>
\* key=lambda x: (x[1].get('streak', 0), x[1].get('total_score', 0))
LeaderboardKey(user_data_u) ==
  <<Get(user_data_u, "streak", 0), Get(user_data_u, "total_score", 0)>>
\* the order of Python's tuples
TupleGreater(a, b) == a[1] > b[1] \/ (a[1] = b[1] /\ a[2] > b[2])

\* sorted(users.items(), key=..., reverse=True) over the users in S: the
\* greatest key first. Among equal keys sorted keeps the order of the
\* dictionary, which the model does not have: it takes one of them.
RECURSIVE SortedReverse(_, _)
SortedReverse(users, S) ==
  IF S = {} THEN <<>>
  ELSE LET top == CHOOSE u \in S :
                    \A v \in S : ~TupleGreater(LeaderboardKey(users[v]), LeaderboardKey(users[u]))
       IN <<top>> \o SortedReverse(users, S \ {top})

\* UserDatabase.get_leaderboard: the user ids of the returned items
GetLeaderboard(users) ==
  LET all == SortedReverse(users, DOMAIN users)
  IN SubSeq(all, 1, IF Len(all) < TopN THEN Len(all) ELSE TopN)

\* get_leaderboard called on the store
GetLeaderboardCall ==
  /\ out' = {}
  /\ last' = [Simple("get_leaderboard", "-") EXCEPT !.board = GetLeaderboard(Load)]
  /\ UNCHANGED <<now, db, conv, user_data, pc, next_run, tick_at, lastQ, dailyAt>>
  /\ UNCHANGED others

\* handle_leaderboard: user_data['name'] raises KeyError for a record
\* without a name, before anything is sent.
HandleLeaderboard(u) ==
  LET users == Load
      leaderboard == GetLeaderboard(users)
  IN
  /\ IF \E i \in 1..Len(leaderboard) : "name" \notin DOMAIN users[leaderboard[i]]
       THEN /\ out' = {}
            /\ last' = [Simple("handle_leaderboard", u) EXCEPT !.exc = "KeyError"]
       ELSE /\ out' = {Eff("reply", u, "leaderboard", "-", Len(leaderboard))}
            /\ last' = [Simple("handle_leaderboard", u) EXCEPT !.board = leaderboard]
  /\ UNCHANGED <<now, db, conv, user_data, pc, next_run, tick_at, lastQ, dailyAt>>
  /\ UNCHANGED others

(* ---------------------------- /db_download ---------------------------- *)
\* a test that lets every requester through
IsAdminAny(user_id) == TRUE
\* the negation of: user_id != ADMIN_CHAT_ID
IsAdmin(user_id) == user_id = ADMIN_CHAT_ID

\* handle_db_download; ok is FALSE when open(DATA_FILE) or reply_document
\* raises, which the handler catches.
HandleDbDownload(u, ok) ==
  /\ IF ~IsAdmin(u)
       THEN /\ ok
            /\ out' = {Reply(u, "not_authorized")}
            /\ last' = Simple("handle_db_download", u)
       ELSE IF ok
         THEN /\ out' = {Eff("reply_document", u, "db.json", "-", 0)}
              /\ last' = Simple("handle_db_download", u)
         ELSE /\ out' = {Reply(u, "error_retrieving_database_file")}
              /\ last' = [Simple("handle_db_download", u) EXCEPT !.exc = "Exception (caught)"]
  /\ UNCHANGED <<now, db, conv, user_data, pc, next_run, tick_at, lastQ, dailyAt>>
  /\ UNCHANGED others

(* ------------------------------ scheduler ----------------------------- *)
\* a comparison by containment: preferred_time in current_time
MatchesSubstring(user_data_u, current_time) ==
  /\ "preferred_time" \in DOMAIN user_data_u
  /\ \E i \in 1..Len(current_time) :
       /\ i + Len(user_data_u["preferred_time"]) - 1 <= Len(current_time)
       /\ SubSeq(current_time, i, i + Len(user_data_u["preferred_time"]) - 1)
            = user_data_u["preferred_time"]
\* user_data.get('preferred_time') == current_time
Matches(user_data_u, current_time) ==
  /\ "preferred_time" \in DOMAIN user_data_u
  /\ user_data_u["preferred_time"] = current_time

\* the body of the try block succeeds for this response
Deliverable(user_data_u, resp) ==
  /\ {"grade", "difficulty"} \subseteq DOMAIN user_data_u
  /\ JsonLoadsOk(resp)
  /\ QuestionKeys \subseteq DOMAIN JsonLoads(resp)

\* check_and_send_questions at clock value t; resp gives the model's
\* response for every user whose preferred time matches.
CheckAndSendQuestions(t, resp) ==
  LET users == Load
      current_time == FmtHHMM(t)
      matched == {u \in DOMAIN users : Matches(users[u], current_time)}
      sent == {u \in matched : Deliverable(users[u], resp[u])}
  IN
  /\ DOMAIN resp = matched
  /\ out' = {Eff("log", u, "preferred_time", "-", 0) : u \in DOMAIN users}
           \cup {Eff("llm", u, "generate_question", "-", 0) :
                   u \in {v \in matched : {"grade", "difficulty"} \subseteq DOMAIN users[v]}}
           \cup {Eff("send_message", u, "daily_question",
                     JsonLoads(resp[u])["question"], 0) : u \in sent}
  /\ last' = Ran("check_and_send_questions", "-", "none", FALSE, "-", NoText, current_time)
  /\ lastQ' = [u \in Users |-> IF u \in sent THEN JsonLoads(resp[u])["question"] ELSE lastQ[u]]
  /\ dailyAt' = [u \in Users |-> IF u \in sent THEN t ELSE dailyAt[u]]
  /\ tick_at' = t

\* schedule.run_pending(): the job runs when it is due, takes d units, and
\* is scheduled again one period after it returns.
\* The weekly job is due at this poll as well, it runs after the minute job
\* (run_pending runs the due jobs in the order of their next_run, and the
\* minute job's is never the later one when both are due).
RunPending ==
  /\ pc = "run_pending"
  /\ alive
  /\ now >= next_run \/ now < weekly_next
  /\ IF now >= next_run
       THEN \E d \in 0..MaxJobDur :
              \E resp \in UNION {[M -> QuestionResponses] : M \in SUBSET DOMAIN db} :
                /\ CheckAndSendQuestions(now, resp)
                /\ now' = now + d
                /\ next_run' = now' + Period
                /\ pc' = IF now >= weekly_next THEN "weekly_pending" ELSE "sleep"
                /\ UNCHANGED <<db, conv, user_data>>
       ELSE /\ out' = {}
            /\ last' = Simple("run_pending", "-")
            /\ pc' = "sleep"
            /\ UNCHANGED <<now, db, conv, user_data, next_run, tick_at, lastQ, dailyAt>>
  /\ UNCHANGED others

\* send_weekly_challenge, run by run_pending when the Sunday 09:00 job is
\* due. generate_weekly_challenge is called outside any try block: when it
\* raises (ok = FALSE) the exception leaves asyncio.run, the job,
\* schedule.run_pending and the while loop of run_scheduler, which has no
\* handler either, so the thread ends and the job is not scheduled again.
\* A send that raises is caught and printed; delivered are the others.
SendWeeklyChallenge(ok, delivered) ==
  LET users == Load IN
  /\ alive
  /\ \/ pc = "weekly_pending"
     \/ pc = "run_pending" /\ now >= weekly_next /\ now < next_run
  /\ delivered \subseteq DOMAIN users
  /\ IF ok
       THEN /\ out' = {Eff("llm", "-", "generate_weekly_challenge", "-", 0)}
                      \cup {Eff("send_message", u, "weekly_challenge", "-", 0) : u \in delivered}
            /\ last' = Ran("send_weekly_challenge", "-", "none", FALSE, "-", NoText, FmtHHMM(now))
            /\ weekly_next' = weekly_next + WeekLen
            /\ pc' = "sleep"
            /\ alive' = TRUE
       ELSE /\ delivered = {}
            /\ out' = {Eff("llm", "-", "generate_weekly_challenge", "-", 0)}
            /\ last' = Ran("send_weekly_challenge", "-", "APIError", FALSE, "-", NoText, FmtHHMM(now))
            /\ alive' = FALSE
            /\ UNCHANGED <<weekly_next, pc>>
  /\ UNCHANGED <<now, db, conv, user_data, next_run, tick_at, lastQ, dailyAt, disk, chat>>

\* time.sleep(30)
Sleep(limit) ==
  /\ pc = "sleep"
  /\ alive
  /\ now < limit
  /\ now' = now + SleepLen
  /\ pc' = "run_pending"
  /\ out' = {}
  /\ last' = Simple("sleep", "-")
  /\ UNCHANGED <<db, conv, user_data, next_run, tick_at, lastQ, dailyAt>>
  /\ UNCHANGED others

(* --------------------------- specifications --------------------------- *)
Next ==
  \/ \E u \in Chats : Start(u)
  \/ \E u \in Chats, text \in Names : GetName(u, text)
  \/ \E u \in Chats, text \in Ages : GetAge(u, text)
  \/ \E u \in Chats, text \in Grades : GetGrade(u, text)
  \/ \E u \in Chats, data \in CallbackData : GetDifficulty(u, data)
  \/ \E u \in Chats, text \in TimeTexts, resp \in QuestionResponses : GetTime(u, text, resp)
  \/ \E u \in Chats, mime \in MimeTypes, utf8 \in BOOLEAN, resp \in EvalResponses :
       HandleSubmission(u, mime, utf8, resp)
  \/ \E u \in Chats : HandleStreak(u)
  \/ \E u \in Chats : CommandHint(u)
  \/ RunPending
  \/ Sleep(MaxTime)

Spec == Init /\ [][Next]_vars

InitRestart ==
  /\ now = 0
  /\ db \in RestartStores
  /\ conv = [u \in Users |-> END]
  /\ user_data = [u \in Users |-> EmptyDict]
  /\ pc = "run_pending"
  /\ next_run = Period
  /\ tick_at = NoTick
  /\ lastQ = [u \in Users |-> NoQuestion]
  /\ dailyAt = [u \in Users |-> NoDelivery]
  /\ last = Simple("run", "-")
  /\ out = {}
  /\ disk = Closed
  /\ chat = [u \in Users |-> END]
  /\ weekly_next \in {SundayNine, SundayNine + DayLen}
  /\ alive = TRUE

\* After a restart: the scheduler thread and well-formed submissions.
NextRestart ==
  \/ \E u \in Chats :
       HandleSubmission(u, "text/plain", TRUE, Plain(EvalFull(JNum(2))))
  \/ RunPending
  \/ \E ok \in BOOLEAN, delivered \in SUBSET Users : SendWeeklyChallenge(ok, delivered)
  \/ Sleep(MaxTimeRestart)

SpecRestart == InitRestart /\ [][NextRestart]_vars

\* The save of a submission against the scheduler thread. save opens the
\* file with mode "w", which empties it, json.dump then writes the text, in
\* more than one piece when it is long, and the with block closes the file.
\* The handler of an evaluated submission up to the open of save:
SaveOpen(u) ==
  LET record == Get(db, u, EmptyDict)
      resp == Plain(EvalFull(JNum(2)))
      updated == StatsAfter(record, JsonLoads(RemoveFences(resp)), now)
  IN
  /\ disk = Closed
  /\ Len(Get(record, "submissions_history", <<>>)) < MaxHistory
  /\ db' = UpdateUser(db, u, updated)
  /\ disk' = [content |-> "truncated", writer |-> u]
  /\ out' = {Eff("send_document", ADMIN_CHAT_ID, "file", "-", 0),
             Eff("llm", u, "evaluate_submission", Get(record, "current_question", ""), 0)}
  /\ last' = Ran("handle_submission", u, "none", FALSE, "text/plain", resp, NoTimeText)
  /\ UNCHANGED <<now, conv, user_data, pc, next_run, tick_at, lastQ, dailyAt,
                 chat, weekly_next, alive>>

\* json.dump has written a first piece of the text to the file
SaveDump ==
  /\ disk.content = "truncated"
  /\ disk' = [disk EXCEPT !.content = "partial"]
  /\ UNCHANGED <<now, db, conv, user_data, pc, next_run, tick_at, lastQ, dailyAt,
                 last, out, chat, weekly_next, alive>>

\* the file is written and closed; the handler goes on to its replies
SaveClose ==
  LET u == disk.writer
      milestone == IF db[u]["streak"] % Milestone = 0
                     THEN {Eff("reply", u, "milestone", "-", db[u]["streak"])}
                     ELSE {}
  IN
  /\ disk.content # "complete"
  /\ disk' = Closed
  /\ out' = {Eff("reply", u, "feedback", "-", 2)} \cup milestone
  /\ last' = Ran("handle_submission", u, "none", TRUE, "text/plain",
                 Plain(EvalFull(JNum(2))), NoTimeText)
  /\ UNCHANGED <<now, db, conv, user_data, pc, next_run, tick_at, lastQ, dailyAt,
                 chat, weekly_next, alive>>

InitRace ==
  /\ InitRestart
  /\ weekly_next = SundayNine

\* The write of db.json takes far less than the scheduler's sleep: no sleep
\* begins and ends while a save is open.
NextRace ==
  \/ \E u \in Chats : SaveOpen(u)
  \/ SaveDump
  \/ SaveClose
  \/ RunPending
  \/ disk = Closed /\ Sleep(MaxTime)

SpecRace == InitRace /\ [][NextRace]_vars

\* a store of either kind, on a day on which the weekly job is not due
InitStore ==
  /\ Init \/ InitRestart
  /\ weekly_next = SundayNine

\* The commands and the chat conversation, with the submissions that
\* change the store beside them.
NextCommands ==
  \/ \E u \in Chats :
       HandleSubmission(u, "text/plain", TRUE, Plain(EvalFull(JNum(2))))
  \/ \E u \in Chats : HandleLeaderboard(u)
  \/ \E u \in Chats \cup {ADMIN_CHAT_ID}, ok \in BOOLEAN : HandleDbDownload(u, ok)
  \/ \E u \in Chats : StartChat(u)
  \/ \E u \in Chats, text \in ChatTexts : HandleChat(u, text)
  \/ \E u \in Chats : EndChat(u)

SpecCommands == InitStore /\ [][NextCommands]_vars

\* get_leaderboard on stores of up to MaxBoardUsers users. The key looks
\* at two fields of a record: the records are of four kinds, one without
\* the two fields, and a store holds a, b - a, c - b and n - c of them.
MaxBoardUsers == 11
BoardRecord(kind) ==
  CASE kind = 0 -> [name |-> "Asha"]
    [] kind = 1 -> [name |-> "Asha", streak |-> 1, total_score |-> 2]
    [] kind = 2 -> [name |-> "Asha", streak |-> 1, total_score |-> 4]
    [] OTHER -> [name |-> "Asha", streak |-> 2, total_score |-> 0]
BoardStores ==
  {[u \in 1..n |-> BoardRecord(IF u <= a THEN 0 ELSE IF u <= b THEN 1
                                 ELSE IF u <= c THEN 2 ELSE 3)] :
     <<n, a, b, c>> \in {t \in (0..MaxBoardUsers) \X (0..MaxBoardUsers)
                              \X (0..MaxBoardUsers) \X (0..MaxBoardUsers) :
                          t[2] <= t[3] /\ t[3] <= t[4] /\ t[4] <= t[1]}}

InitBoard ==
  /\ now = 0
  /\ db \in BoardStores
  /\ conv = [u \in Users |-> END]
  /\ user_data = [u \in Users |-> EmptyDict]
  /\ pc = "run_pending"
  /\ next_run = Period
  /\ tick_at = NoTick
  /\ lastQ = [u \in Users |-> NoQuestion]
  /\ dailyAt = [u \in Users |-> NoDelivery]
  /\ last = Simple("run", "-")
  /\ out = {}
  /\ disk = Closed
  /\ chat = [u \in Users |-> END]
  /\ weekly_next = SundayNine
  /\ alive = TRUE

NextBoard ==
  \/ GetLeaderboardCall
  \/ \E u \in Chats : HandleLeaderboard(u)

SpecBoard == InitBoard /\ [][NextBoard]_vars

\* UserDatabase.update_user called on its own: the stores and the arguments
\* are drawn from the records get_time and handle_submission pass to it.
UpdateArgs ==
  {Registered(<<"0", "1", ":", "0", "0">>),
   Registered(<<"0", "3", ":", "0", "0">>),
   [streak |-> 1, total_score |-> 2, submissions_history |-> <<>>],
   [streak |-> 2, total_score |-> 4, submissions_history |-> <<>>]}

UpdateUserCall(user_id, data) ==
  /\ db' = UpdateUser(Load, user_id, data)
  /\ last' = [Simple("update_user", user_id) EXCEPT !.data = data, !.saved = TRUE]
  /\ out' = {}
  /\ UNCHANGED <<now, conv, user_data, pc, next_run, tick_at, lastQ, dailyAt>>
  /\ UNCHANGED others

NextStore == \E user_id \in Users, data \in UpdateArgs : UpdateUserCall(user_id, data)

SpecStore == InitStore /\ [][NextStore]_vars

(* ------------------------------- claims ------------------------------- *)
MinuteOf(t) == t \div MinuteLen
\* the answers a registration collects
AnswerKeys == {"name", "age", "grade", "difficulty"}

\* C1: between two consecutive runs of check_and_send_questions no minute
\* that is the preferred time of a stored user goes by unchecked, so every
\* such user gets a delivery attempt every day.
C1_EveryMinuteChecked ==
  [][(tick_at # NoTick /\ tick_at' # tick_at) =>
       \A m \in (MinuteOf(tick_at) + 1)..(MinuteOf(tick_at') - 1) :
         \A u \in DOMAIN db : ~Matches(db[u], FmtHHMM(m * MinuteLen))]_vars

DailyQuestionsSent == {e \in out : e.op = "send_message" /\ e.what = "daily_question"}

\* C2: a run of check_and_send_questions sends a daily question only to
\* users whose stored preferred_time equals the current time formatted
\* HH:MM, and it examines every user of the store.
C2_OnlyAtPreferredTime ==
  last.h = "check_and_send_questions" =>
    /\ last.current_time = FmtHHMM(tick_at)
    /\ \A e \in DailyQuestionsSent :
         /\ e.to \in DOMAIN db
         /\ "preferred_time" \in DOMAIN db[e.to]
         /\ db[e.to]["preferred_time"] = last.current_time
    /\ {e.to : e \in {x \in out : x.op = "log"}} = DOMAIN db

\* C2 witness: a run that sends to one user and passes over a stored user
\* whose preferred_time differs.
C2_Witness ==
  /\ last.h = "check_and_send_questions"
  /\ DailyQuestionsSent # {}
  /\ \E u \in DOMAIN db :
       /\ "preferred_time" \in DOMAIN db[u]
       /\ db[u]["preferred_time"] # last.current_time
       /\ \A e \in DailyQuestionsSent : e.to # u

\* C3: a submission received more than 9 hours after the delivery of the
\* daily question does not increase the user's streak or total_score.
C3_DeadlineEnforced ==
  [][\A u \in DOMAIN db :
       (dailyAt[u] # NoDelivery /\ now > dailyAt[u] + NineHours /\ u \in DOMAIN db') =>
         /\ Get(db'[u], "streak", 0) <= Get(db[u], "streak", 0)
         /\ Get(db'[u], "total_score", 0) <= Get(db[u], "total_score", 0)]_vars

\* the evaluation parses as a JSON object with a (numeric) score and a feedback
ParsesWithScoreAndFeedback(text) ==
  /\ text.json
  /\ {"score", "feedback"} \subseteq DOMAIN text.obj
  /\ text.obj["score"].t = "number"

StatKeys == {"streak", "total_score", "submissions_history"}

DaysSubmitted(record) ==
  LET history == Get(record, "submissions_history", <<>>)
  IN {history[i].date : i \in 1..Len(history)}

\* C5: the streak that /streak reports counts days: it is at most the
\* number of calendar days on which the user had a submission evaluated.
C5_StreakCountsDays ==
  (last.h = "handle_streak" /\ last.u \in DOMAIN db
     /\ AnswerKeys \subseteq DOMAIN db[last.u]) =>
    \A e \in out : e.n <= Cardinality(DaysSubmitted(db[e.to]))

\* C6: the question text passed to evaluate_submission is the question most
\* recently delivered to the submitting user.
C6_EvaluatedAgainstDelivered ==
  (last.h = "handle_submission" /\ lastQ[last.u] # NoQuestion) =>
    \A e \in out :
      (e.op = "llm" /\ e.what = "evaluate_submission") => e.arg = lastQ[last.u]

RegistrationOrder ==
  {<<END, NAME>>, <<NAME, AGE>>, <<AGE, GRADE>>, <<GRADE, DIFFICULTY>>,
   <<DIFFICULTY, TIME>>, <<TIME, END>>}
RegistrationHandlers ==
  {"start", "get_name", "get_age", "get_grade", "get_difficulty", "get_time"}

\* C7: the registration conversation goes /start, NAME, AGE, GRADE,
\* DIFFICULTY, TIME, end, one state at a time; DIFFICULTY is left only on a
\* callback whose data is Beginner, Intermediate or Advanced; a step of the
\* conversation writes the store only in state TIME, with the four answers
\* collected before; and get_time, when it returns, ends the conversation.
C7_RegistrationLinear ==
  [][\A u \in Users :
       /\ conv'[u] # conv[u] => <<conv[u], conv'[u]>> \in RegistrationOrder
       /\ (conv[u] = DIFFICULTY /\ conv'[u] = TIME) =>
            user_data'[u]["difficulty"] \in {DIFFICULTY_LEVELS[i] : i \in 1..3}
       /\ (last'.h \in RegistrationHandlers /\ last'.u = u /\ db' # db) =>
            /\ last'.h = "get_time"
            /\ conv[u] = TIME
            /\ AnswerKeys \subseteq DOMAIN user_data[u]
            /\ \A k \in AnswerKeys : db'[u][k] = user_data[u][k]
       /\ (last'.h = "get_time" /\ last'.u = u /\ last'.exc = "none") =>
            (conv[u] = TIME /\ conv'[u] = END)]_vars

\* C7 witness: a registration that went through to the end.
C7_Witness ==
  /\ last.h = "get_time"
  /\ last.exc = "none"
  /\ conv[last.u] = END
  /\ last.u \in DOMAIN db
  /\ AnswerKeys \subseteq DOMAIN db[last.u]
  /\ db[last.u]["difficulty"] = "Beginner"

\* C8: a document whose mime type is neither text/plain nor text/x-python
\* gets the reply that only .txt or .py files are allowed and nothing else:
\* no forward to the admin, no evaluation request, no change of the store.
C8_OtherFilesRejected ==
  [][(last'.h = "handle_submission"
        /\ last'.mime \notin {"text/plain", "text/x-python"}) =>
       /\ out' = {Reply(last'.u, "only_txt_py")}
       /\ db' = db
       /\ user_data' = user_data]_vars

\* C8 witness: a PDF sent by a user who has a record.
C8_Witness ==
  /\ last.h = "handle_submission"
  /\ last.mime = "application/pdf"
  /\ Reply(last.u, "only_txt_py") \in out
  /\ last.u \in DOMAIN db

\* an evaluation was requested and its text is not valid JSON, fences
\* stripped
EvaluationNotJson(ran) ==
  /\ ran.h = "handle_submission"
  /\ ran.resp # NoText
  /\ ~ran.resp.json

\* C9: when the evaluation text is not valid JSON after stripping the
\* fences, the fallback message is sent and the store is unchanged.
C9_FallbackKeepsStore ==
  [][EvaluationNotJson(last') =>
       /\ Reply(last'.u, "fallback") \in out'
       /\ db' = db]_vars

\* C9 witness: a non-JSON evaluation for a user with a streak.
C9_Witness ==
  /\ EvaluationNotJson(last)
  /\ Reply(last.u, "fallback") \in out
  /\ last.u \in DOMAIN db
  /\ Get(db[last.u], "streak", 0) >= 1

\* C10: a submission that updates the store is followed by the feedback
\* message to the user.
C10_FeedbackAfterUpdate ==
  (last.h = "handle_submission" /\ last.saved /\ AnswerKeys \subseteq DOMAIN db[last.u]) =>
    \E e \in out : e.op = "reply" /\ e.to = last.u /\ e.what = "feedback"

\* C11: update_user(u, d) changes the record of u and nothing else: after
\* the call u's record is its previous record (or the empty record) with
\* the keys of d overwritten by d's values, and every other user's record
\* is what it was before the call.
C11_UpdateTouchesOneRecord ==
  [][last'.h = "update_user" =>
       LET u == last'.u
           d == last'.data
           before == IF u \in DOMAIN db THEN db[u] ELSE EmptyDict
       IN /\ DOMAIN db' = DOMAIN db \cup {u}
          /\ \A v \in DOMAIN db \ {u} : db'[v] = db[v]
          /\ DOMAIN db'[u] = DOMAIN before \cup DOMAIN d
          /\ \A k \in DOMAIN d : db'[u][k] = d[k]
          /\ \A k \in DOMAIN before \ DOMAIN d : db'[u][k] = before[k]]_vars

\* C11 witness: an update with the statistics only, applied to a registered
\* user's record while another user's record is in the store: the name and
\* the preferred time are kept, the streak is overwritten.
C11_Witness ==
  /\ last.h = "update_user"
  /\ DOMAIN last.data = StatKeys
  /\ DOMAIN db = Users
  /\ "name" \in DOMAIN db[last.u]
  /\ db[last.u]["preferred_time"] = <<"0", "3", ":", "0", "0">>
  /\ db[last.u]["streak"] = 2
  /\ \E v \in Users \ {last.u} : db[v]["streak"] = 1

\* C12: a run of check_and_send_questions examines every user of the store
\* whose preferred_time equals the current time, also when the main thread
\* is saving the store at that moment: no run works on an empty or partly
\* written user set.
C12_TickSeesEveryUser ==
  last.h = "check_and_send_questions" =>
    \A u \in DOMAIN db :
      Matches(db[u], last.current_time) => Eff("log", u, "preferred_time", "-", 0) \in out

\* the text is one that datetime.now().strftime("%H:%M") gives at some
\* moment of a day
ValidHHMM(text) == \E t \in 0..(DayLen - 1) : FmtHHMM(t) = text

\* C13: the preferred_time that a registration stores is a valid HH:MM
\* time: it equals the formatted current time at some moment of the day.
C13_PreferredTimeValid ==
  last.h = "get_time" => ValidHHMM(db[last.u]["preferred_time"])

\* C14: after a daily question has been delivered to a registered user,
\* /hint replies with the hint of the most recently delivered question.
C14_HintOfCurrentQuestion ==
  (/\ last.h = "command"
   /\ last.text = "/hint"
   /\ last.u \in DOMAIN db
   /\ AnswerKeys \subseteq DOMAIN db[last.u]
   /\ dailyAt[last.u] # NoDelivery)
  => Eff("reply", last.u, "hint", Hint(lastQ[last.u]), 0) \in out

DocumentsSent == {e \in out : e.op = "reply_document"}

\* C15 as stated: /db_download sends the database file if and only if the
\* requesting chat id equals ADMIN_CHAT_ID; every other requester gets the
\* not-authorized reply and no file.
C15_FileIffAdmin ==
  last.h = "handle_db_download" =>
    /\ (DocumentsSent # {}) <=> (last.u = ADMIN_CHAT_ID)
    /\ last.u # ADMIN_CHAT_ID => out = {Reply(last.u, "not_authorized")}

\* C15: /db_download sends the database file only to the admin, and only
\* to the requesting chat: a requester whose id differs from ADMIN_CHAT_ID
\* gets the not-authorized reply and no file; the admin gets the file, or
\* the error reply and no file when opening or sending the file raises.
\* The store is unchanged in every case.
C15_FileOnlyToAdmin ==
  [][last'.h = "handle_db_download" =>
       LET u == last'.u
           file == Eff("reply_document", u, "db.json", "-", 0)
       IN /\ \A e \in out' : e.op = "reply_document" => (e = file /\ u = ADMIN_CHAT_ID)
          /\ u # ADMIN_CHAT_ID => out' = {Reply(u, "not_authorized")}
          /\ u = ADMIN_CHAT_ID =>
               out' \in {{file}, {Reply(u, "error_retrieving_database_file")}}
          /\ db' = db
          /\ disk' = disk]_vars

\* C15 witness: the admin asks for a store that holds a record and gets
\* the file.
C15_Witness ==
  /\ last.h = "handle_db_download"
  /\ last.u = ADMIN_CHAT_ID
  /\ DocumentsSent = {Eff("reply_document", ADMIN_CHAT_ID, "db.json", "-", 0)}
  /\ DOMAIN db # {}

\* C16: in a chat session every text message is answered with a reply of
\* the language model and the session stays in CHAT, until the user types
\* end_chat, which ends the session.
C16_TypingEndChatEnds ==
  [][\A u \in Chats :
       (chat[u] = CHAT /\ last'.u = u /\ last'.text \in ChatTexts) =>
         IF last'.text = "end_chat"
           THEN chat'[u] = END
           ELSE /\ chat'[u] = CHAT
                /\ Eff("llm", u, "chat_response", last'.text, 0) \in out'
                /\ Reply(u, "chat_response") \in out']_vars

\* the entries of a leaderboard are in the order of the claim: streak
\* descending and, among equal streaks, total_score descending
Ordered(users, board) ==
  \A i \in 1..(Len(board) - 1) :
    LET x == users[board[i]]
        y == users[board[i + 1]]
    IN \/ Get(x, "streak", 0) > Get(y, "streak", 0)
       \/ /\ Get(x, "streak", 0) = Get(y, "streak", 0)
          /\ Get(x, "total_score", 0) >= Get(y, "total_score", 0)

\* C17: get_leaderboard returns at most 10 entries of the store, each user
\* once, ordered by streak descending and among equal streaks by
\* total_score descending, a missing field counting as 0; a user left out
\* has a (streak, total_score) pair not greater than any returned user's.
C17_LeaderboardTopTen ==
  last.h = "get_leaderboard" =>
    LET board == last.board
        returned == {board[i] : i \in 1..Len(board)}
        pair(u) == <<Get(db[u], "streak", 0), Get(db[u], "total_score", 0)>>
    IN /\ Len(board) <= 10
       /\ returned \subseteq DOMAIN db
       /\ Cardinality(returned) = Len(board)
       /\ Ordered(db, board)
       /\ \A v \in DOMAIN db \ returned : \A u \in returned :
            ~(\/ pair(v)[1] > pair(u)[1]
              \/ pair(v)[1] = pair(u)[1] /\ pair(v)[2] > pair(u)[2])

\* C17 witness: a store of more than ten users, of which ten are returned
\* and one with a smaller pair is left out; the returned ones differ in
\* streak, and two of equal streak differ in total_score.
C17_Witness ==
  /\ last.h = "get_leaderboard"
  /\ Cardinality(DOMAIN db) > 10
  /\ Len(last.board) = 10
  /\ \E i \in 1..9 :
       Get(db[last.board[i]], "streak", 0) > Get(db[last.board[i + 1]], "streak", 0)
  /\ \E i \in 1..9 :
       /\ Get(db[last.board[i]], "streak", 0) = Get(db[last.board[i + 1]], "streak", 0)
       /\ Get(db[last.board[i]], "total_score", 0)
            > Get(db[last.board[i + 1]], "total_score", 0)
  /\ \E v \in DOMAIN db : "streak" \notin DOMAIN db[v]

\* C18: every record of the store has the fields of a completed
\* registration, and /leaderboard replies with the leaderboard.
C18_RecordsAreRegistered ==
  /\ \A u \in DOMAIN db : AnswerKeys \cup {"preferred_time"} \subseteq DOMAIN db[u]
  /\ last.h = "handle_leaderboard" =>
       \E e \in out : e.op = "reply" /\ e.to = last.u /\ e.what = "leaderboard"

\* C19: the scheduler thread never stops: whatever fails inside a
\* scheduled job, the loop of run_scheduler goes on, so
\* check_and_send_questions is run again on later minutes.
C19_SchedulerKeepsRunning == alive

====
